---- MODULE Spec2Model ----
(***************************************************************************)
(* A model of numba/types/cffi.py: the five types that bridge cffi         *)
(* libraries, ffi sessions, structs and struct pointers into numba's type  *)
(* system.                                                                 *)
(*                                                                         *)
(* Python strings are sequences of one-character strings (longer literal   *)
(* pieces that are never inspected are kept as one element).  Python's     *)
(* None is the string "None"; numba reports "no conversion" as None.       *)
(***************************************************************************)
EXTENDS Integers, Sequences, FiniteSets, TLC

VARIABLES
    lib_obj,      \* the cffi library object handed to CFFILibraryType(lib)
    lib_type,     \* the CFFILibraryType instance (or the failed construction)
    lib_call,     \* the last has_func / get_func_pointer call and its outcome
    types_built,  \* CFFIPointer / CFFIStructRefType instances, built independently
    conv_call,    \* the last can_convert_to / can_convert_from call and its outcome
    sessions,     \* the live ffi session objects, each at its memory address
    next_oid,     \* identity of the next session object to be created
    ffi_types     \* the live FFIType instances, each with the object it was built from

vars == <<lib_obj, lib_type, lib_call, types_built, conv_call, sessions, next_oid, ffi_types>>

libVars == <<lib_obj, lib_type, lib_call>>
ptrVars == <<types_built>>
convVars == <<conv_call>>
ffiVars == <<sessions, next_oid, ffi_types>>

(***************************************************************************)
(* Bounds of the model.                                                    *)
(***************************************************************************)
MaxNameLen == 2
MaxInst == 4
MaxSessions == 3
MaxAddr == 2
MaxFFITypes == 2

None == "None"

(***************************************************************************)
(* CFFILibraryType                                                         *)
(***************************************************************************)

\* The literal text of the pattern before the group: <Lib object for '
LibPrefix == <<"<", "L", "i", "b", " ", "o", "b", "j", "e", "c", "t", " ", "f", "o", "r", " ", "'">>

\* The literal text of the pattern after the group: '>
LibSuffix == <<"'", ">">>

\* Whether text s continues with the literal lit from position p on.
LiteralAt(s, p, lit) ==
    /\ p + Len(lit) - 1 <= Len(s)
    /\ \A i \in 1..Len(lit) : s[p + i - 1] = lit[i]

\* The length of the longest run of characters other than ' in s from position p on.
RECURSIVE NonQuoteRun(_, _)
NonQuoteRun(s, p) ==
    IF p > Len(s) \/ s[p] = "'" THEN 0 ELSE 1 + NonQuoteRun(s, p + 1)

\* re.match(r"<Lib object for '([^']+)'>", s) anchored at the end of the text as
\* well (re.fullmatch): what the code would do had it asked for a whole-text match.
re_fullmatch(s) ==
    LET p == Len(LibPrefix) + 1
        n == IF LiteralAt(s, 1, LibPrefix) THEN NonQuoteRun(s, p) ELSE 0
    IN  IF /\ LiteralAt(s, 1, LibPrefix)
           /\ n >= 1
           /\ LiteralAt(s, p + n, LibSuffix)
           /\ Len(s) = p + n + Len(LibSuffix) - 1
        THEN [matched |-> TRUE, group1 |-> SubSeq(s, p, p + n - 1)]
        ELSE [matched |-> FALSE, group1 |-> <<>>]

\* re.match(r"<Lib object for '([^']+)'>", s): the pattern is matched at the start
\* of s; what follows the match is not looked at.  [^']+ is greedy and what follows
\* it is a quote, so the group is the whole run of non-quote characters.
re_match(s) ==
    LET p == Len(LibPrefix) + 1
        n == IF LiteralAt(s, 1, LibPrefix) THEN NonQuoteRun(s, p) ELSE 0
    IN  IF /\ LiteralAt(s, 1, LibPrefix)
           /\ n >= 1
           /\ LiteralAt(s, p + n, LibSuffix)
        THEN [matched |-> TRUE, group1 |-> SubSeq(s, p, p + n - 1)]
        ELSE [matched |-> FALSE, group1 |-> <<>>]

\* The attribute names a library object may carry, and what an attribute can be.
FuncNames == {"sin", "cos", "tan"}
AttrKinds == {"BuiltinFunctionType", "other"}

\* The characters a library's name is drawn from, the quote among them.
NameChars == {"a", "b", "'"}

RECURSIVE SeqsUpTo(_, _)
SeqsUpTo(S, n) ==
    IF n = 0 THEN {<<>>}
    ELSE LET shorter == SeqsUpTo(S, n - 1)
         IN  shorter \cup {Append(s, c) : s \in {t \in shorter : Len(t) = n - 1}, c \in S}

\* The texts str(lib) is drawn from: a head (the pattern's literal start, the start
\* without its quote, the start after a stray character, nothing), a name, and a
\* tail (the pattern's literal end, parts of it, the end followed by more text).
ReprHeads == {LibPrefix, SubSeq(LibPrefix, 1, Len(LibPrefix) - 1), <<"x">> \o LibPrefix, <<>>}
ReprTails == {LibSuffix, <<"'">>, <<">">>, <<>>, LibSuffix \o <<"x">>}
LibReprs == {h \o m \o t : h \in ReprHeads, m \in SeqsUpTo(NameChars, MaxNameLen), t \in ReprTails}

LibObjects == [repr : LibReprs, attrs : [FuncNames -> AttrKinds]]

NoLibType == [status |-> "none", exc |-> None, func_names |-> {}, lib_name |-> <<>>, name |-> <<>>]
NoLibCall == [op |-> "none", arg |-> None, raised |-> None, ret |-> None, resolved |-> <<>>]

\* CFFILibraryType.__init__(lib): the names of the attributes that are builtin
\* functions, then the library's name out of str(lib).  re.match returns None when
\* the text does not match and None.group(1) raises AttributeError: no instance.
CFFILibraryType_init(lib) ==
    LET m == re_match(lib.repr)
    IN  IF ~m.matched
        THEN [NoLibType EXCEPT !.status = "raised", !.exc = "AttributeError"]
        ELSE [status |-> "ok", exc |-> None,
              func_names |-> {f \in DOMAIN lib.attrs : lib.attrs[f] = "BuiltinFunctionType"},
              lib_name |-> m.group1,
              name |-> <<"cffi_lib<">> \o m.group1 \o <<">">>]

\* CFFILibraryType.has_func
has_func(self, func_name) == func_name \in self.func_names

\* The pointers the external resolver get_func_pointer(func_name) may hand back.
ResolverPointers == {"ptr1", "ptr2"}

\* get_func_pointer that forgets the membership test and always delegates.
get_func_pointer_unchecked(self, func_name, resolved) ==
    [call |-> [op |-> "get_func_pointer", arg |-> func_name, raised |-> None,
               ret |-> resolved, resolved |-> <<[name |-> func_name, ret |-> resolved]>>],
     self |-> self]

\* get_func_pointer that remembers a name it failed to find.
get_func_pointer_caching(self, func_name, resolved) ==
    IF ~(func_name \in self.func_names)
    THEN [call |-> [op |-> "get_func_pointer", arg |-> func_name, raised |-> "AttributeError",
                    ret |-> None, resolved |-> <<>>],
          self |-> [self EXCEPT !.func_names = @ \cup {func_name}]]
    ELSE [call |-> [op |-> "get_func_pointer", arg |-> func_name, raised |-> None,
                    ret |-> resolved, resolved |-> <<[name |-> func_name, ret |-> resolved]>>],
          self |-> self]

\* CFFILibraryType.get_func_pointer: the outcome of the call and the instance after
\* it (the method assigns nothing), `resolved` being what the external resolver
\* get_func_pointer(func_name) returns if it is asked.
get_func_pointer(self, func_name, resolved) ==
    IF ~(func_name \in self.func_names)
    THEN [call |-> [op |-> "get_func_pointer", arg |-> func_name, raised |-> "AttributeError",
                    ret |-> None, resolved |-> <<>>],
          self |-> self]
    ELSE [call |-> [op |-> "get_func_pointer", arg |-> func_name, raised |-> None,
                    ret |-> resolved, resolved |-> <<[name |-> func_name, ret |-> resolved]>>],
          self |-> self]

Construct ==
    /\ lib_type.status = "none"
    /\ lib_type' = CFFILibraryType_init(lib_obj)
    /\ UNCHANGED <<lib_obj, lib_call>>

HasFunc ==
    /\ lib_type.status = "ok"
    /\ \E n \in FuncNames :
        lib_call' = [op |-> "has_func", arg |-> n, raised |-> None,
                     ret |-> IF has_func(lib_type, n) THEN "True" ELSE "False",
                     resolved |-> <<>>]
    /\ UNCHANGED <<lib_obj, lib_type>>

GetFuncPointer ==
    /\ lib_type.status = "ok"
    /\ \E n \in FuncNames, p \in ResolverPointers :
        /\ lib_call' = get_func_pointer(lib_type, n, p).call
        /\ lib_type' = get_func_pointer(lib_type, n, p).self
    /\ UNCHANGED lib_obj

InitLibVars ==
    /\ lib_obj \in LibObjects
    /\ lib_type = NoLibType
    /\ lib_call = NoLibCall

IdleLibVars ==
    /\ lib_obj = [repr |-> <<>>, attrs |-> [f \in FuncNames |-> "other"]]
    /\ lib_type = NoLibType
    /\ lib_call = NoLibCall


(***************************************************************************)
(* numba's base types, as far as cffi.py relies on them.                   *)
(***************************************************************************)

\* types.voidptr, the canonical opaque pointer: RawPointer('void*').
voidptr == [cls |-> "RawPointer", name |-> <<"void*">>]

int32 == [cls |-> "Integer", name |-> <<"int32">>]
float64 == [cls |-> "Float", name |-> <<"float64">>]

\* types.CPointer.__init__(dtype): a pointer to dtype, named "<dtype>*".
CPointer_init(dtype) ==
    [cls |-> "CPointer", dtype |-> dtype, name |-> dtype.name \o <<"*">>]

(***************************************************************************)
(* CFFIStructInstanceType, CFFIPointer, CFFIStructRefType                  *)
(***************************************************************************)

\* The cffi struct descriptors of the model.
CffiStructTypes == {[cname |-> "struct A"], [cname |-> "struct B"]}

\* CFFIStructInstanceType.__init__(cffi_type)
CFFIStructInstanceType_init(cffi_type) ==
    [cls |-> "CFFIStructInstanceType", cffi_type |-> cffi_type,
     name |-> <<"<instance> (", cffi_type.cname, ")">>, struct |-> <<>>]

StructInstances == {CFFIStructInstanceType_init(ct) : ct \in CffiStructTypes}

\* CFFIPointer.__init__(dtype, owning)
CFFIPointer_init(dtype, owning) ==
    LET base == CPointer_init(dtype)
    IN  [cls |-> "CFFIPointer", dtype |-> base.dtype, owning |-> owning,
         name |-> <<"<ffi>(">> \o base.name \o <<"*)">>
                     \o (IF owning THEN <<"(Owning)">> ELSE <<>>)]

\* The key CPointer defines, which CFFIPointer overrides: the pointee alone.
CFFIPointer_key_inherited(self) == <<self.dtype>>

\* CFFIPointer.key
CFFIPointer_key(self) == <<self.dtype, self.owning>>

\* CFFIStructRefType.__init__ that hands the originating pointer's ownership on.
CFFIStructRefType_init_owning(ptrtype) ==
    LET base == CFFIPointer_init(ptrtype.dtype, ptrtype.owning)
    IN  [cls |-> "CFFIStructRefType", dtype |-> base.dtype, owning |-> base.owning,
         ptrtype |-> ptrtype, name |-> <<"Ref#">> \o base.dtype.name]

\* CFFIStructRefType.__init__(ptrtype): CFFIPointer.__init__(ptrtype.dtype) with
\* owning left at its default, False; then the back-reference and the name.
CFFIStructRefType_init(ptrtype) ==
    LET base == CFFIPointer_init(ptrtype.dtype, FALSE)
    IN  [cls |-> "CFFIStructRefType", dtype |-> base.dtype, owning |-> base.owning,
         ptrtype |-> ptrtype, name |-> <<"Ref#">> \o base.dtype.name]

\* Type.key of a type: CFFIPointer's for it and its subclass, CPointer's pointee,
\* and the name for every other type.
key(t) ==
    IF t.cls \in {"CFFIPointer", "CFFIStructRefType"} THEN CFFIPointer_key(t)
    ELSE IF t.cls = "CPointer" THEN <<t.dtype>>
    ELSE t.name

\* Type.__eq__: the same class and equal keys.
TypeEq(a, b) == a.cls = b.cls /\ key(a) = key(b)

\* The types a pointer is built to.
Pointees == {int32} \cup StructInstances

NewCFFIPointer ==
    /\ Len(types_built) < MaxInst
    /\ \E d \in Pointees, o \in BOOLEAN :
          types_built' = Append(types_built, CFFIPointer_init(d, o))

NewCFFIStructRefType ==
    /\ Len(types_built) < MaxInst
    /\ \E i \in DOMAIN types_built :
          types_built' = Append(types_built, CFFIStructRefType_init(types_built[i]))

InitPtrVars == types_built = <<>>

(***************************************************************************)
(* can_convert_to / can_convert_from                                       *)
(***************************************************************************)

\* What typingctx.can_convert may answer: a Conversion, or None for no conversion.
CtxVerdicts == {"safe", "unsafe", None}

\* The outcome of a call that returns ret without asking typingctx.
Returns(ret) == [raised |-> None, ret |-> ret, ctx_calls |-> <<>>]

\* The outcome of `return typingctx.can_convert(fromty, toty)`, answered by verdict.
ReturnsCanConvert(fromty, toty, verdict) ==
    [raised |-> None, ret |-> verdict,
     ctx_calls |-> <<[fromty |-> fromty, toty |-> toty, ret |-> verdict]>>]

\* The outcome of a call that raises exc.
Raises(exc) == [raised |-> exc, ret |-> None, ctx_calls |-> <<>>]

\* can_convert_to that takes every pointer type for the opaque pointer.
CFFIStructInstanceType_can_convert_to_anyptr(self, verdict, other) ==
    IF other.cls \in {"RawPointer", "CPointer", "CFFIPointer", "CFFIStructRefType"}
    THEN Returns("safe")
    ELSE Returns(None)

\* CFFIStructInstanceType.can_convert_to(typingctx, other): falling off the end of
\* the method returns None.
CFFIStructInstanceType_can_convert_to(self, verdict, other) ==
    IF TypeEq(other, voidptr) THEN Returns("safe") ELSE Returns(None)

\* CFFIStructInstanceType.can_convert_from(typeingctx, other)
CFFIStructInstanceType_can_convert_from(self, verdict, other) ==
    IF TypeEq(other, voidptr) THEN Returns("safe") ELSE Returns(None)

\* isinstance(other, CFFIStructRefType) or isinstance(other, CFFIStructInstanceType)
IsStructRefOrInstance(other) ==
    other.cls = "CFFIStructRefType" \/ other.cls = "CFFIStructInstanceType"

\* can_convert_to that hands a struct reference's pointee on, and the type itself
\* when it is a struct instance.
CFFIStructRefType_can_convert_to_pointee_or_self(self, verdict, other) ==
    IF IsStructRefOrInstance(other)
    THEN ReturnsCanConvert(self.dtype,
                           IF other.cls = "CFFIStructRefType" THEN other.dtype ELSE other,
                           verdict)
    ELSE Returns(None)

\* can_convert_to that reads other.dtype, which a struct instance does not have.
CFFIStructRefType_can_convert_to_pointee(self, verdict, other) ==
    IF IsStructRefOrInstance(other)
    THEN IF other.cls = "CFFIStructRefType"
         THEN ReturnsCanConvert(self.dtype, other.dtype, verdict)
         ELSE Raises("AttributeError")
    ELSE Returns(None)

\* can_convert_from that lets every cffi pointer through to typingctx.
CFFIStructRefType_can_convert_from_anypointer(self, verdict, other) ==
    IF IsStructRefOrInstance(other) \/ other.cls = "CFFIPointer"
    THEN ReturnsCanConvert(self.dtype, other, verdict)
    ELSE Returns(None)

\* CFFIStructRefType.can_convert_to(typingctx, other), `verdict` being what
\* typingctx.can_convert answers if it is asked.
CFFIStructRefType_can_convert_to(self, verdict, other) ==
    IF IsStructRefOrInstance(other)
    THEN ReturnsCanConvert(self.dtype, other, verdict)
    ELSE Returns(None)

\* CFFIStructRefType.can_convert_from(typingctx, other)
CFFIStructRefType_can_convert_from(self, verdict, other) ==
    IF IsStructRefOrInstance(other)
    THEN ReturnsCanConvert(self.dtype, other, verdict)
    ELSE Returns(None)

\* The cffi pointers and struct references of the model.
CFFIPointers == {CFFIPointer_init(d, o) : d \in Pointees, o \in BOOLEAN}
StructRefs == {CFFIStructRefType_init(p) : p \in {q \in CFFIPointers : q.dtype \in StructInstances}}

\* The types a conversion is asked about.
TypeUniverse ==
    {voidptr, int32, float64, CPointer_init(int32)}
        \cup CFFIPointers \cup StructInstances \cup StructRefs

NoConvCall ==
    [method |-> "none", self |-> voidptr, other |-> voidptr,
     raised |-> None, ret |-> None, ctx_calls |-> <<>>]

ConvCall(method, self, other, out) ==
    [method |-> method, self |-> self, other |-> other,
     raised |-> out.raised, ret |-> out.ret, ctx_calls |-> out.ctx_calls]

StructInstanceCanConvertTo ==
    \E s \in StructInstances, o \in TypeUniverse, v \in CtxVerdicts :
        conv_call' = ConvCall("can_convert_to", s, o,
                              CFFIStructInstanceType_can_convert_to(s, v, o))

StructInstanceCanConvertFrom ==
    \E s \in StructInstances, o \in TypeUniverse, v \in CtxVerdicts :
        conv_call' = ConvCall("can_convert_from", s, o,
                              CFFIStructInstanceType_can_convert_from(s, v, o))

StructRefCanConvertTo ==
    \E r \in StructRefs, o \in TypeUniverse, v \in CtxVerdicts :
        conv_call' = ConvCall("can_convert_to", r, o,
                              CFFIStructRefType_can_convert_to(r, v, o))

StructRefCanConvertFrom ==
    \E r \in StructRefs, o \in TypeUniverse, v \in CtxVerdicts :
        conv_call' = ConvCall("can_convert_from", r, o,
                              CFFIStructRefType_can_convert_from(r, v, o))

InitConvVars == conv_call = NoConvCall

(***************************************************************************)
(* FFIType                                                                 *)
(***************************************************************************)

\* What a session declares; two sessions may declare the same.
Cdefs == {"double sin(double x);", "int foo(int a);"}

\* The memory addresses a session object can be allocated at.
Addresses == 1..MaxAddr

\* id(obj): the address of the object, unique among the objects alive.
id(obj) == obj.addr

HexDigit(d) ==
    <<"0", "1", "2", "3", "4", "5", "6", "7", "8", "9", "a", "b", "c", "d", "e", "f">>[d + 1]

RECURSIVE HexDigits(_)
HexDigits(n) ==
    IF n < 16 THEN <<HexDigit(n)>> ELSE HexDigits(n \div 16) \o <<HexDigit(n % 16)>>

\* hex(n) of a natural number
hex(n) == <<"0", "x">> \o HexDigits(n)

\* FFIType.__init__ that names the type after the address without holding on to
\* the session object.
FFIType_init_noref(ffi) ==
    [cls |-> "FFIType", ffi |-> 0, name |-> <<"FFI#">> \o hex(id(ffi))]

\* FFIType.__init__(ffi): the instance refers to the session object (which keeps
\* the object alive) and is named after the object's address.
FFIType_init(ffi) ==
    [cls |-> "FFIType", ffi |-> ffi.oid, name |-> <<"FFI#">> \o hex(id(ffi))]

\* FFIType.get_call_signatures
get_call_signatures(self) == <<<<>>, TRUE>>

\* A session object is created at an address no live object occupies.
NewSession ==
    /\ next_oid <= MaxSessions
    /\ \E a \in Addresses, c \in Cdefs :
          /\ \A o \in sessions : o.addr # a
          /\ sessions' = sessions \cup {[oid |-> next_oid, addr |-> a, cdef |-> c]}
    /\ next_oid' = next_oid + 1
    /\ UNCHANGED ffi_types

\* FFIType(ffi) for a live session object.
NewFFIType ==
    /\ Len(ffi_types) < MaxFFITypes
    /\ \E o \in sessions :
          ffi_types' = Append(ffi_types, [ty |-> FFIType_init(o), built_from |-> o.oid])
    /\ UNCHANGED <<sessions, next_oid>>

\* A session object no FFIType instance refers to is released; its address is free
\* to be used again.
FreeSession ==
    /\ \E o \in sessions :
          /\ \A i \in DOMAIN ffi_types : ffi_types[i].ty.ffi # o.oid
          /\ sessions' = sessions \ {o}
    /\ UNCHANGED <<next_oid, ffi_types>>

\* An FFIType instance is released, and with it its reference to the session.
DropFFIType ==
    /\ \E i \in DOMAIN ffi_types :
          ffi_types' = SubSeq(ffi_types, 1, i - 1) \o SubSeq(ffi_types, i + 1, Len(ffi_types))
    /\ UNCHANGED <<sessions, next_oid>>

InitFFIVars ==
    /\ sessions = {}
    /\ next_oid = 1
    /\ ffi_types = <<>>

(***************************************************************************)
(* Specifications: one per type family, the other families at rest.        *)
(***************************************************************************)

InitLib == InitLibVars /\ InitPtrVars /\ InitConvVars /\ InitFFIVars
NextLib ==
    \/ Construct /\ UNCHANGED <<ptrVars, convVars, ffiVars>>
    \/ HasFunc /\ UNCHANGED <<ptrVars, convVars, ffiVars>>
    \/ GetFuncPointer /\ UNCHANGED <<ptrVars, convVars, ffiVars>>
SpecLib == InitLib /\ [][NextLib]_vars

InitPtr == IdleLibVars /\ InitPtrVars /\ InitConvVars /\ InitFFIVars
NextPtr ==
    \/ NewCFFIPointer /\ UNCHANGED <<libVars, convVars, ffiVars>>
    \/ NewCFFIStructRefType /\ UNCHANGED <<libVars, convVars, ffiVars>>
SpecPtr == InitPtr /\ [][NextPtr]_vars

InitConv == IdleLibVars /\ InitPtrVars /\ InitConvVars /\ InitFFIVars
NextConv ==
    \/ StructInstanceCanConvertTo /\ UNCHANGED <<libVars, ptrVars, ffiVars>>
    \/ StructInstanceCanConvertFrom /\ UNCHANGED <<libVars, ptrVars, ffiVars>>
    \/ StructRefCanConvertTo /\ UNCHANGED <<libVars, ptrVars, ffiVars>>
    \/ StructRefCanConvertFrom /\ UNCHANGED <<libVars, ptrVars, ffiVars>>
SpecConv == InitConv /\ [][NextConv]_vars

InitFFI == IdleLibVars /\ InitPtrVars /\ InitConvVars /\ InitFFIVars
NextFFI ==
    \/ NewSession /\ UNCHANGED <<libVars, ptrVars, convVars>>
    \/ NewFFIType /\ UNCHANGED <<libVars, ptrVars, convVars>>
    \/ FreeSession /\ UNCHANGED <<libVars, ptrVars, convVars>>
    \/ DropFFIType /\ UNCHANGED <<libVars, ptrVars, convVars>>
SpecFFI == InitFFI /\ [][NextFFI]_vars

(***************************************************************************)
(* Claims about CFFILibraryType, checked under SpecLib.                    *)
(***************************************************************************)

\* C1: get_func_pointer(n) raises exactly when has_func(n) is false, has_func(n)
\* being true exactly when n was recorded as an exported function at construction;
\* otherwise it asks the external resolver once, for n, and returns its pointer.
C1_RaisesIffAbsent ==
    /\ lib_call.op = "has_func" =>
          /\ lib_call.ret = "True" <=> lib_obj.attrs[lib_call.arg] = "BuiltinFunctionType"
          /\ lib_call.raised = None
    /\ lib_call.op = "get_func_pointer" =>
          /\ lib_call.raised = "AttributeError" <=> ~has_func(lib_type, lib_call.arg)
          /\ has_func(lib_type, lib_call.arg) <=>
                lib_obj.attrs[lib_call.arg] = "BuiltinFunctionType"
          /\ has_func(lib_type, lib_call.arg) =>
                /\ lib_call.raised = None
                /\ Len(lib_call.resolved) = 1
                /\ lib_call.resolved[1].name = lib_call.arg
                /\ lib_call.ret = lib_call.resolved[1].ret
          /\ ~has_func(lib_type, lib_call.arg) =>
                /\ lib_call.resolved = <<>>
                /\ lib_call.ret = None

\* C1 witness: a lookup of an absent name has raised.
C1_WitnessRaised ==
    /\ lib_call.op = "get_func_pointer"
    /\ lib_call.raised = "AttributeError"
    /\ lib_type.func_names # {}

\* Whether text s starts with text t.
StartsWith(s, t) == Len(t) <= Len(s) /\ SubSeq(s, 1, Len(t)) = t

\* The names a text can hold: its contiguous pieces, and the empty name.
Pieces(s) == {<<>>} \cup {SubSeq(s, i, j) : i \in 1..Len(s), j \in 1..Len(s)}

\* A library name the pattern's group can hold: not empty, no quote in it.
IsName(NAME) == NAME # <<>> /\ \A i \in 1..Len(NAME) : NAME[i] # "'"

\* C6 as claimed: construction succeeds with name NAME exactly when str(lib) is
\* <Lib object for 'NAME'>, and raises otherwise.
C6_Original ==
    lib_type.status # "none" =>
        /\ lib_type.status \in {"ok", "raised"}
        /\ \A NAME \in {n \in Pieces(lib_obj.repr) : IsName(n)} :
              (lib_type.status = "ok" /\ lib_type.lib_name = NAME)
                  <=> lib_obj.repr = LibPrefix \o NAME \o LibSuffix

\* C6 amended: construction succeeds with name NAME exactly when str(lib) starts
\* with <Lib object for 'NAME'> for a non-empty NAME that holds no quote (what
\* follows the closing > is ignored); otherwise it raises and no instance exists.
C6_PrefixMatch ==
    lib_type.status # "none" =>
        /\ lib_type.status \in {"ok", "raised"}
        /\ \A NAME \in Pieces(lib_obj.repr) :
              (lib_type.status = "ok" /\ lib_type.lib_name = NAME)
                  <=> /\ IsName(NAME)
                      /\ StartsWith(lib_obj.repr, LibPrefix \o NAME \o LibSuffix)
        /\ lib_type.status = "ok" => lib_type.lib_name \in Pieces(lib_obj.repr)
        /\ lib_type.status = "raised" =>
              /\ lib_type.exc = "AttributeError"
              /\ lib_type.func_names = {}
              /\ lib_type.lib_name = <<>>

\* C6 witness: a library whose text goes on after the closing > was constructed.
C6_WitnessTrailingText ==
    /\ lib_type.status = "ok"
    /\ Len(lib_obj.repr) > Len(LibPrefix \o lib_type.lib_name \o LibSuffix)

\* C8: once constructed, the instance's name and its answers to has_func never
\* change, whatever is called on it.
C8_Immutable ==
    [][lib_type.status = "ok" =>
          /\ lib_type'.status = "ok"
          /\ lib_type'.lib_name = lib_type.lib_name
          /\ lib_type'.name = lib_type.name
          /\ \A n \in FuncNames : has_func(lib_type', n) <=> has_func(lib_type, n)]_vars

\* C8 witness: a lookup has failed on a constructed instance that exports something.
C8_WitnessAfterFailedLookup ==
    /\ lib_type.status = "ok"
    /\ lib_call.op = "get_func_pointer"
    /\ lib_call.raised = "AttributeError"
    /\ \E n \in FuncNames : has_func(lib_type, n)

(***************************************************************************)
(* Claims about CFFIPointer and CFFIStructRefType instances, under SpecPtr. *)
(***************************************************************************)

IsCFFIPointer(t) == t.cls = "CFFIPointer"
IsStructRef(t) == t.cls = "CFFIStructRefType"

\* C2: two CFFIPointer instances built independently compare equal when pointee and
\* ownership agree, and unequal when the pointee agrees and the ownership differs.
C2_PointerEquality ==
    \A i, j \in DOMAIN types_built :
        LET p == types_built[i]
            q == types_built[j]
        IN  (IsCFFIPointer(p) /\ IsCFFIPointer(q) /\ p.dtype = q.dtype) =>
                /\ p.owning = q.owning => TypeEq(p, q)
                /\ p.owning # q.owning => ~TypeEq(p, q)

\* C2 witness: an owning pointer and two separately built borrowed pointers to one
\* pointee.
C2_WitnessThreePointers ==
    \E i, j, k \in DOMAIN types_built :
        /\ i # j
        /\ IsCFFIPointer(types_built[i]) /\ IsCFFIPointer(types_built[j])
        /\ IsCFFIPointer(types_built[k])
        /\ types_built[i].dtype = types_built[j].dtype
        /\ types_built[k].dtype = types_built[i].dtype
        /\ ~types_built[i].owning /\ ~types_built[j].owning
        /\ types_built[k].owning

\* C10: a struct reference takes the originating pointer's pointee and is always
\* borrowed; its key is (pointee, borrowed); references built from pointers to one
\* pointee compare equal whatever those pointers' ownership, the back-reference
\* taking no part.
C10_StructRefBorrowed ==
    /\ \A i \in DOMAIN types_built :
          LET r == types_built[i]
          IN  IsStructRef(r) =>
                  /\ r.dtype = r.ptrtype.dtype
                  /\ r.owning = FALSE
                  /\ key(r) = <<r.ptrtype.dtype, FALSE>>
    /\ \A i, j \in DOMAIN types_built :
          LET r == types_built[i]
              q == types_built[j]
          IN  (IsStructRef(r) /\ IsStructRef(q) /\ r.ptrtype.dtype = q.ptrtype.dtype)
                  => TypeEq(r, q)

\* C10 witness: references built from an owning and from a borrowed pointer to one
\* pointee.
C10_WitnessOwningAndBorrowed ==
    \E i, j \in DOMAIN types_built :
        /\ IsStructRef(types_built[i]) /\ IsStructRef(types_built[j])
        /\ IsCFFIPointer(types_built[i].ptrtype) /\ IsCFFIPointer(types_built[j].ptrtype)
        /\ types_built[i].ptrtype.dtype = types_built[j].ptrtype.dtype
        /\ types_built[i].ptrtype.owning /\ ~types_built[j].ptrtype.owning

(***************************************************************************)
(* Claims about the conversion rules, under SpecConv.                      *)
(***************************************************************************)

Called == conv_call.method # "none"
SelfIsStructInstance == conv_call.self.cls = "CFFIStructInstanceType"
SelfIsStructRef == conv_call.self.cls = "CFFIStructRefType"

\* C3 as claimed: for other a struct reference or a struct instance, the call asks
\* typingctx.can_convert(self's pointee, Y) once and returns its answer, Y being
\* other's pointee for a struct reference and other itself for a struct instance.
C3_Original ==
    (Called /\ SelfIsStructRef /\ IsStructRefOrInstance(conv_call.other)) =>
        /\ Len(conv_call.ctx_calls) = 1
        /\ conv_call.ctx_calls[1].fromty = conv_call.self.dtype
        /\ conv_call.ctx_calls[1].toty =
              (IF conv_call.other.cls = "CFFIStructRefType"
               THEN conv_call.other.dtype ELSE conv_call.other)
        /\ conv_call.ret = conv_call.ctx_calls[1].ret

\* C3 amended: for other a struct reference or a struct instance, can_convert_to and
\* can_convert_from each ask typingctx.can_convert(self's pointee, other) once, with
\* other itself in both cases, and return its answer.
C3_DelegatesWithOther ==
    (Called /\ SelfIsStructRef /\ IsStructRefOrInstance(conv_call.other)) =>
        /\ conv_call.raised = None
        /\ Len(conv_call.ctx_calls) = 1
        /\ conv_call.ctx_calls[1].fromty = conv_call.self.dtype
        /\ conv_call.ctx_calls[1].toty = conv_call.other
        /\ conv_call.ret = conv_call.ctx_calls[1].ret

\* C3 witness: can_convert_to between two struct references, answered unsafe.
C3_WitnessRefToRef ==
    /\ conv_call.method = "can_convert_to"
    /\ SelfIsStructRef
    /\ conv_call.other.cls = "CFFIStructRefType"
    /\ conv_call.other.dtype # conv_call.self.dtype
    /\ conv_call.ret = "unsafe"

\* C4: a struct instance converts to and from the opaque pointer safely and to and
\* from nothing else; both directions give the same verdict.
C4_OnlyVoidptr ==
    (Called /\ SelfIsStructInstance) =>
        /\ conv_call.ret = "safe" <=> conv_call.other = voidptr
        /\ conv_call.other # voidptr => conv_call.ret = None
        /\ conv_call.ctx_calls = <<>>
        /\ \A v \in CtxVerdicts :
              CFFIStructInstanceType_can_convert_to(conv_call.self, v, conv_call.other).ret
                = CFFIStructInstanceType_can_convert_from(conv_call.self, v, conv_call.other).ret

\* C4 witness: a struct instance was asked about a cffi pointer to itself.
C4_WitnessPlainPointer ==
    /\ Called /\ SelfIsStructInstance
    /\ conv_call.other.cls = "CFFIPointer"
    /\ conv_call.other.dtype = conv_call.self
    /\ conv_call.ret = None

\* C5: for other neither a struct reference nor a struct instance, a struct
\* reference answers no conversion and typingctx is not asked.
C5_UnrelatedNoConversion ==
    (Called /\ SelfIsStructRef /\ ~IsStructRefOrInstance(conv_call.other)) =>
        /\ conv_call.ret = None
        /\ conv_call.ctx_calls = <<>>

\* C5 witness: a struct reference was asked about the cffi pointer it came from.
C5_WitnessOwnPointer ==
    /\ Called /\ SelfIsStructRef
    /\ conv_call.other = conv_call.self.ptrtype
    /\ conv_call.method = "can_convert_from"

\* C9: no conversion query raises; each returns safe, unsafe or None.
C9_NeverRaises ==
    Called =>
        /\ conv_call.raised = None
        /\ conv_call.ret \in CtxVerdicts

\* C9 witness: a struct reference was asked about a struct instance and answered
\* no conversion.
C9_WitnessNegativeAnswer ==
    /\ Called /\ SelfIsStructRef
    /\ conv_call.other.cls = "CFFIStructInstanceType"
    /\ conv_call.ret = None
    /\ conv_call.ctx_calls # <<>>

(***************************************************************************)
(* Claims about FFIType, under SpecFFI.                                    *)
(***************************************************************************)

\* C7: two live FFIType instances compare equal exactly when they were built from
\* the same session object.
C7_SessionIdentity ==
    \A i, j \in DOMAIN ffi_types :
        TypeEq(ffi_types[i].ty, ffi_types[j].ty)
            <=> ffi_types[i].built_from = ffi_types[j].built_from

\* C7 witness: types of two sessions that declare the same, the second session
\* created after an earlier one was released.
C7_WitnessTwinSessions ==
    /\ next_oid > 3
    /\ \E i, j \in DOMAIN ffi_types :
          /\ ffi_types[i].built_from # ffi_types[j].built_from
          /\ \E o1, o2 \in sessions :
                /\ o1.oid = ffi_types[i].built_from
                /\ o2.oid = ffi_types[j].built_from
                /\ o1.cdef = o2.cdef

====
